---- MODULE Spec2Model ----
(***************************************************************************)
(* State-machine model of the rhythm game: the AudioEngine look-ahead      *)
(* sequencer (App.tsx, class AudioEngine), the App controller (App.tsx,    *)
(* function App) and the GameCanvas judgment / simulation loop             *)
(* (components/GameCanvas).                                                *)
(*                                                                         *)
(* Time is counted in units of 1/(10 * bpm) s = 1/1150 s: one beat         *)
(* (60/115 s) is 600 units, one sixteenth note 150 units and 0.1 s 115     *)
(* units; the judgment thresholds 0.08 and 0.22 of a beat are 48 and 132   *)
(* units.  Arithmetic on times is exact.  Depth is counted in the world    *)
(* units of the source.                                                    *)
(***************************************************************************)
EXTENDS Integers, Sequences, FiniteSets, TLC

VARIABLES
    eng,        \* the AudioEngine instance, its device and its pending timers
    gameState,  \* App: useState gameState
    score,      \* App: useState score
    combo,      \* App: useState combo
    health,     \* App: useState health
    rendered,   \* the state values captured by the closures of the last commit
    mounted,    \* App is mounted
    canvas,     \* GameCanvas: mounted flag, refs (buildings, lastTime, shake)
    pending,    \* judgment events handled since React last committed a render
    ev          \* what the last operation reported (observation only)

vars == <<eng, gameState, score, combo, health, rendered, mounted, canvas,
          pending, ev>>

(***************************************************************************)
(* Program constants                                                       *)
(***************************************************************************)
bpm == 115
TicksPerSecond == 10 * bpm
secondsPerBeat == (60 * TicksPerSecond) \div bpm
sixteenth == secondsPerBeat \div 4
startOffset == TicksPerSecond \div 10
scheduleAheadTime == TicksPerSecond \div 10
StepsPerBar == 16
BUILD_LINE_Z == 200
fov == 350
BassTable == 4
ArpTable == 6
MissSlack == 60
RetireZ == 0 - 200
SpawnGap == 400
FirstSpawnBase == 1500
PoolSize == 8
MaxHealth == 100
PerfectPct == 8
GoodPct == 22
PerfectPoints == 1000
GoodPoints == 500
MissPenalty == 15
PassiveMissPenalty == 10
PerfectHeal == 5
ComboStep == 5

(***************************************************************************)
(* Bounds of the model                                                     *)
(***************************************************************************)
\* the whole application, with every start / stop interleaving
MaxTime == 230
MaxTimers == 2
MaxOps == 2
MaxCombo == 2
MaxScore == 1000
MaxPending == 1
TimeSteps == {115}
DzSet == {2600}

\* one game session, with fine-grained frames
GameMaxCombo == 2
GameMaxScore == 1000
GameMaxPending == 1
GameDzSet == {170, 510}
\* depth steps of the frames of the canvas-alone profile
PoolDzSet == {170, 510}

\* one game session, with long combos and coarse frames
ScoreMaxCombo == 6
ScoreMaxScore == 3500
ScoreMaxPending == 2

\* one game session, with a fine-grained audio clock
JudgeMaxTime == 1200
JudgePhases == {0, 47, 48, 131, 132, 300, 468, 469, 552, 553}
JudgeMaxCombo == 1
JudgeMaxScore == 1000
JudgeMaxPending == 1

\* the AudioEngine alone, under any client
EngMaxTime == 2700
EngTimeSteps == {300, 900}
\* the functions a client registers, one after the other, as beat callback
MaxCallbacks == 2

Min2(a, b) == IF a < b THEN a ELSE b
Max2(a, b) == IF a > b THEN a ELSE b

(***************************************************************************)
(* AudioEngine                                                             *)
(*   ctx            "null" | "suspended" | "running"  (this.ctx and its    *)
(*                  AudioContext.state)                                    *)
(*   ops            the device's queue of suspend()/resume() requests that *)
(*                  have not completed; "resume" is awaited by a bare      *)
(*                  start(), "resumeGame" by a start() called by startGame *)
(*   currentTime    ctx.currentTime                                        *)
(*   timers         the pending window.setTimeout timers of scheduler()    *)
(* and, as observations of what the engine did,                            *)
(*   notes          the (step, time, voices, pitches) tuples of the        *)
(*                  scheduleNote calls of the latest scheduler() call      *)
(*   prevNote       the last tuple of the run before that call, or <<>>    *)
(*   beats          the beat-callback invocations of that call, each as    *)
(*                  (callback, beatTime, beatIndex)                        *)
(* beatCallback is 0 for null and otherwise names the registered function. *)
(*   runOpen        a start() has reset the sequencer since the last stop()*)
(*   stopped        stop() has returned and start() was not called since   *)
(***************************************************************************)
NoEvent ==
    [op |-> "none", result |-> "NONE", points |-> 0, beatErr |-> 0,
     misses |-> 0, removed |-> <<>>, target |-> 0, drawn |-> <<>>]

EngineInit ==
    [ctx |-> "null", ops |-> <<>>, currentTime |-> 0, nextNoteTime |-> 0,
     current16thNote |-> 0, timerID |-> 0, timers |-> {},
     beatCallback |-> 0, notes |-> <<>>, prevNote |-> <<>>,
     beats |-> <<>>, runOpen |-> FALSE, stopped |-> FALSE]

isRunning(e) == e.ctx = "running"

getCurrentTime(e) == IF e.ctx = "null" THEN 0 ELSE e.currentTime

\* window.setTimeout: a fresh timer id
NewTimer(e) == CHOOSE i \in 1..(MaxTimers + 1) : i \notin e.timers

\* a drum pattern whose hi-hat sounds on the off-beats only
voicesOffBeatHat(beatNumber) ==
    (IF beatNumber % 4 = 0 THEN {"kick"} ELSE {})
    \cup (IF beatNumber % 16 = 4 \/ beatNumber % 16 = 12 THEN {"snare"} ELSE {})
    \cup (IF beatNumber % 4 = 2 THEN {"hihatOpen"} ELSE {})
    \cup (IF beatNumber % 2 = 0 THEN {"bass"} ELSE {})
    \cup (IF beatNumber % 2 = 0 THEN {"arp"} ELSE {})

\* the play* calls of scheduleNote, lines 265-289; playHiHat(time, isOpen) is
\* "hihatOpen" or "hihatClosed".  init() has made masterGain and noiseBuffer
\* whenever ctx exists, so no play* call returns early.
voices(beatNumber) ==
    (IF beatNumber % 4 = 0 THEN {"kick"} ELSE {})
    \cup (IF beatNumber % 16 = 4 \/ beatNumber % 16 = 12 THEN {"snare"} ELSE {})
    \cup (IF beatNumber % 2 = 0
          THEN {IF beatNumber % 4 = 2 THEN "hihatOpen" ELSE "hihatClosed"}
          ELSE {})
    \cup (IF beatNumber % 2 = 0 THEN {"bass"} ELSE {})
    \cup (IF beatNumber % 2 = 0 THEN {"arp"} ELSE {})

\* playBass, line 381: Math.floor(step / 32) % 4
bassIndex(step) == (step \div 32) % BassTable

\* an arpeggio index that is not wrapped to the table
arpIndexUnwrapped(step) == IF step % 2 = 0 THEN step \div 2 ELSE 0 - 1

\* playArp, line 409: (step / 2) % notes.length; for an odd step this is
\* not an integer and selects nothing, written -1
arpIndex(step) == IF step % 2 = 0 THEN (step \div 2) % ArpTable ELSE 0 - 1

\* the note-table indices of the playBass and playArp calls of scheduleNote
\* (lines 281-289): <<bass index, arp index>>, or << >> when not called
pitches(beatNumber) ==
    IF beatNumber % 2 = 0
    THEN <<bassIndex(beatNumber), arpIndex(beatNumber)>>
    ELSE << >>

scheduleNote(e, beatNumber, time) ==
    IF e.ctx = "null" THEN e
    ELSE [e EXCEPT
            !.notes = Append(@, <<beatNumber, time, voices(beatNumber),
                                  pitches(beatNumber)>>),
            !.beats = IF beatNumber % 4 = 0 /\ e.beatCallback # 0
                      THEN Append(@, <<e.beatCallback, time, beatNumber>>)
                      ELSE @]

nextNote(e) ==
    [e EXCEPT
        !.nextNoteTime = @ + sixteenth,
        !.current16thNote = IF @ + 1 = StepsPerBar THEN 0 ELSE @ + 1]

\* a scheduler loop that handles at most one step per call
scheduleOneStep(e) ==
    IF e.nextNoteTime < e.currentTime + scheduleAheadTime
    THEN nextNote(scheduleNote(e, e.current16thNote, e.nextNoteTime))
    ELSE e

RECURSIVE scheduleLoop(_)
scheduleLoop(e) ==
    IF e.nextNoteTime < e.currentTime + scheduleAheadTime
    THEN scheduleLoop(nextNote(scheduleNote(e, e.current16thNote, e.nextNoteTime)))
    ELSE e

scheduler(e) ==
    IF e.ctx = "null" THEN e
    ELSE LET s == scheduleLoop([e EXCEPT
                      !.prevNote = IF e.notes # <<>>
                                   THEN e.notes[Len(e.notes)] ELSE @,
                      !.notes = <<>>,
                      !.beats = <<>>])
             id == NewTimer(s)
         IN [s EXCEPT !.timerID = id, !.timers = @ \cup {id}]

\* a start() that keeps the step counter of the previous run
startWithoutRewind(e) ==
    scheduler([e EXCEPT
        !.nextNoteTime = e.currentTime + startOffset,
        !.notes = IF e.runOpen THEN @ ELSE <<>>,
        !.prevNote = IF e.runOpen THEN @ ELSE <<>>,
        !.runOpen = TRUE])

\* start(), lines 195-197: what runs once the device is not suspended
startResumed(e) ==
    scheduler([e EXCEPT
        !.current16thNote = 0,
        !.nextNoteTime = e.currentTime + startOffset,
        !.notes = IF e.runOpen THEN @ ELSE <<>>,
        !.prevNote = IF e.runOpen THEN @ ELSE <<>>,
        !.runOpen = TRUE])

\* init(): a new AudioContext, in the state the platform creates it in
init(e, created) ==
    IF e.ctx # "null" THEN e ELSE [e EXCEPT !.ctx = created, !.currentTime = 0]

\* a start() that does not wait for ctx.resume() to complete
startWithoutAwait(e, created, awaitTag) ==
    startResumed([init(e, created) EXCEPT !.stopped = FALSE])

\* start(): up to the await of ctx.resume(), and through to the end when the
\* device is not suspended.  awaitTag names the request the caller waits on.
start(e, created, awaitTag) ==
    LET i == [init(e, created) EXCEPT !.stopped = FALSE]
    IN IF i.ctx = "suspended"
       THEN [i EXCEPT !.ops = Append(@, awaitTag)]
       ELSE startResumed(i)

\* a stop() that also rewinds the sequencer
stopAndRewind(e) ==
    [e EXCEPT !.timers = @ \ {e.timerID}, !.timerID = 0,
              !.current16thNote = 0, !.nextNoteTime = 0,
              !.ops = IF e.ctx # "null" THEN Append(@, "suspend") ELSE @,
              !.runOpen = FALSE, !.stopped = TRUE]

stop(e) ==
    LET c == IF e.timerID # 0
             THEN [e EXCEPT !.timers = @ \ {e.timerID}, !.timerID = 0]
             ELSE e
    IN IF c.ctx # "null"
       THEN [c EXCEPT !.ops = Append(@, "suspend"), !.runOpen = FALSE,
                      !.stopped = TRUE]
       ELSE [c EXCEPT !.runOpen = FALSE, !.stopped = TRUE]

\* a registration that keeps a callback registered earlier
setBeatCallbackOnce(e, cb) ==
    IF e.beatCallback = 0 THEN [e EXCEPT !.beatCallback = cb] ELSE e

setBeatCallback(e, cb) == [e EXCEPT !.beatCallback = cb]

(***************************************************************************)
(* App controller                                                          *)
(***************************************************************************)
\* the values a React state setter queue holds: [score, combo, health]
Stats(s, c, h) == [score |-> s, combo |-> c, health |-> h]

\* a handleScoreUpdate whose health updates are not clamped
handleScoreUpdateUnclamped(st, closureCombo, points, result) ==
    IF result = "MISS"
    THEN [st EXCEPT !.combo = 0, !.health = @ - MissPenalty]
    ELSE [st EXCEPT
            !.score = @ + (points * (2 + (closureCombo \div ComboStep))) \div 2,
            !.combo = @ + 1,
            !.health = IF result = "PERFECT" THEN @ + PerfectHeal ELSE @]

\* a handleScoreUpdate in which a GOOD hit heals like a PERFECT one
handleScoreUpdateGoodHeals(st, closureCombo, points, result) ==
    IF result = "MISS"
    THEN [st EXCEPT !.combo = 0, !.health = Max2(0, @ - MissPenalty)]
    ELSE [st EXCEPT
            !.score = @ + (points * (2 + (closureCombo \div ComboStep))) \div 2,
            !.combo = @ + 1,
            !.health = Min2(MaxHealth, @ + PerfectHeal)]

\* a handleScoreUpdate in which a MISS costs points
handleScoreUpdateMissCosts(st, closureCombo, points, result) ==
    IF result = "MISS"
    THEN [st EXCEPT !.score = @ - GoodPoints, !.combo = 0,
                    !.health = Max2(0, @ - MissPenalty)]
    ELSE [st EXCEPT
            !.score = @ + (points * (2 + (closureCombo \div ComboStep))) \div 2,
            !.combo = @ + 1,
            !.health = IF result = "PERFECT"
                       THEN Min2(MaxHealth, @ + PerfectHeal) ELSE @]

\* handleScoreUpdate; closureCombo is the combo its closure captured
handleScoreUpdate(st, closureCombo, points, result) ==
    IF result = "MISS"
    THEN [st EXCEPT !.combo = 0, !.health = Max2(0, @ - MissPenalty)]
    ELSE [st EXCEPT
            \* floor(points * (1 + floor(combo / 5) * 0.5))
            !.score = @ + (points * (2 + (closureCombo \div ComboStep))) \div 2,
            !.combo = @ + 1,
            !.health = IF result = "PERFECT"
                       THEN Min2(MaxHealth, @ + PerfectHeal) ELSE @]

\* a handlePassiveMiss that keeps the combo
handlePassiveMissKeepCombo(st) ==
    [st EXCEPT !.health = Max2(0, @ - PassiveMissPenalty)]

handlePassiveMiss(st) ==
    [st EXCEPT !.combo = 0, !.health = Max2(0, @ - PassiveMissPenalty)]

RECURSIVE passiveMisses(_, _)
passiveMisses(st, k) ==
    IF k = 0 THEN st ELSE passiveMisses(handlePassiveMiss(st), k - 1)

(***************************************************************************)
(* GameCanvas                                                              *)
(***************************************************************************)
\* frames: the pending requestAnimationFrame callbacks, each named by the
\* effect run whose render loop requested it (a loop has at most one request
\* pending, and its animationFrameId variable holds that request);
\* animationFrameId: the variable of the latest effect run
CanvasInit ==
    [mounted |-> FALSE, buildings |-> <<>>, lastTimeSet |-> FALSE, shake |-> 0,
     frames |-> {}, animationFrameId |-> 0]

\* the effect of part_000 lines 120-359 runs: a new render loop is started
requestAnimationFrame(c) ==
    LET id == CHOOSE i \in 1..(Cardinality(c.frames) + 1) : i \notin c.frames
    IN [c EXCEPT !.frames = @ \cup {id}, !.animationFrameId = id]

\* an effect cleanup that leaves the requested frame pending
cleanupKeepsFrame(c) == c

\* the effect cleanup, line 358
cancelAnimationFrame(c) == [c EXCEPT !.frames = @ \ {c.animationFrameId}]

\* React re-runs the effect: the cleanup of the previous run, then the effect
rerunEffect(c) == requestAnimationFrame(cancelAnimationFrame(c))

NewBuilding(z) ==
    [z |-> z, isLocked |-> FALSE, hasMissed |-> FALSE, quality |-> "null",
     height |-> 20, misses |-> 0]

Abs(n) == IF n < 0 THEN 0 - n ELSE n

\* a selection that takes the first unlocked target of the list
selectFirstOpen(bs) ==
    LET open == {i \in DOMAIN bs : ~bs[i].isLocked}
    IN IF open = {} THEN 0 ELSE CHOOSE i \in open : \A j \in open : i <= j

\* buildingsRef.current.filter(b => !b.isLocked).sort(by |z - BUILD_LINE_Z|)[0]:
\* the index of the selected target, 0 when there is none (the sort is stable)
selectTarget(bs) ==
    LET open == {i \in DOMAIN bs : ~bs[i].isLocked}
        d(i) == Abs(bs[i].z - BUILD_LINE_Z)
    IN IF open = {} THEN 0
       ELSE CHOOSE i \in open :
              \A j \in open : d(i) < d(j) \/ (d(i) = d(j) /\ i <= j)

\* a phase error measured from audio time 0 instead of from the last beat
beatErrFromZero(currentTime) ==
    Min2(currentTime, Abs(secondsPerBeat - currentTime))

\* beatErr of handleInput, in time units (beatErr * beatDuration)
beatErr(currentTime) ==
    LET timeSinceLastBeat == currentTime % secondsPerBeat
    IN Min2(timeSinceLastBeat, secondsPerBeat - timeSinceLastBeat)

\* a classification with closed upper ends
classifyClosed(err) ==
    IF err * 100 <= PerfectPct * secondsPerBeat THEN "PERFECT"
    ELSE IF err * 100 <= GoodPct * secondsPerBeat THEN "GOOD"
    ELSE "MISS"

classify(err) ==
    IF err * 100 < PerfectPct * secondsPerBeat THEN "PERFECT"
    ELSE IF err * 100 < GoodPct * secondsPerBeat THEN "GOOD"
    ELSE "MISS"

pointsOf(result) ==
    IF result = "PERFECT" THEN PerfectPoints
    ELSE IF result = "GOOD" THEN GoodPoints ELSE 0

shakeOf(result) ==
    IF result = "PERFECT" THEN 35 ELSE IF result = "GOOD" THEN 15 ELSE 5

\* a lock that gives every hit the PERFECT height
lockTargetFullHeight(b, result) ==
    [b EXCEPT !.isLocked = TRUE, !.quality = result, !.height = 100]

lockTarget(b, result) ==
    [b EXCEPT !.isLocked = TRUE, !.quality = result,
              !.height = IF result = "PERFECT" THEN 100 ELSE 60]

\* a judgment that locks the target whatever the result
judgeAlwaysLocks(b, result) == lockTarget(b, result)

\* handleInput, lines 99-109: what a judgment does to the selected target
judge(b, result) == IF result # "MISS" THEN lockTarget(b, result) ELSE b

\* stable insertion of b into a sequence sorted by descending z
RECURSIVE insertDesc(_, _)
insertDesc(s, b) ==
    IF s = <<>> THEN <<b>>
    ELSE IF Head(s).z >= b.z THEN <<Head(s)>> \o insertDesc(Tail(s), b)
    ELSE <<b>> \o s

\* buildingsRef.current.sort((a, b) => b.z - a.z), in place
RECURSIVE sortDesc(_)
sortDesc(s) ==
    IF s = <<>> THEN <<>>
    ELSE insertDesc(sortDesc(SubSeq(s, 1, Len(s) - 1)), s[Len(s)])

\* a passive-miss test that ignores the lock
missedThoughLocked(b) == ~b.hasMissed /\ b.z < BUILD_LINE_Z - MissSlack

\* a passive-miss test that ignores the hasMissed flag
belowMissLine(b) == ~b.isLocked /\ b.z < BUILD_LINE_Z - MissSlack

passivelyMissed(b) == ~b.isLocked /\ ~b.hasMissed /\ b.z < BUILD_LINE_Z - MissSlack

\* a filter that removes a target as soon as it is behind the camera
retainedInFront(b) == b.z > 0

retained(b) == b.z > RetireZ

\* an advance that flags only the targets the frame will keep
advanceRetained(bs, dz) ==
    [i \in DOMAIN bs |->
        LET m == [bs[i] EXCEPT !.z = @ - dz]
        IN IF passivelyMissed(m) /\ retained(m)
           THEN [m EXCEPT !.hasMissed = TRUE, !.misses = @ + 1]
           ELSE m]

\* render, lines 281-287: advance every target and flag the passive misses
advance(bs, dz) ==
    [i \in DOMAIN bs |->
        LET m == [bs[i] EXCEPT !.z = @ - dz]
        IN IF passivelyMissed(m)
           THEN [m EXCEPT !.hasMissed = TRUE, !.misses = @ + 1]
           ELSE m]

missCount(bs, dz) ==
    Cardinality({i \in DOMAIN bs : passivelyMissed([bs[i] EXCEPT !.z = @ - dz])})

\* render, lines 288-294: retire, then spawn at most one target
spawn(bs) ==
    IF Len(bs) < PoolSize
    THEN LET lastZ == IF Len(bs) > 0 THEN bs[Len(bs)].z ELSE FirstSpawnBase
         IN Append(bs, NewBuilding(lastZ + SpawnGap))
    ELSE bs

\* render, lines 280-297, the gameplay part of one animation frame
render(bs, closureState, dz) ==
    sortDesc(IF closureState = "PLAYING"
             THEN spawn(SelectSeq(advance(bs, dz), retained))
             ELSE bs)

\* a projection that gives up only at the retirement depth
projectToRetirement(z) == IF z <= RetireZ THEN << >> ELSE <<fov, z>>

\* project, lines 53-64: << >> for null, otherwise the scale fov / rZ as the
\* pair <<fov, rZ>> (the lane offset is not modelled)
project(z) == IF z <= 0 THEN << >> ELSE <<fov, z>>

\* render, lines 297-299: the projections of the targets that are drawn;
\* "if (!p) return" leaves the forEach callback of that target only
draw(bs) ==
    LET ps == [i \in DOMAIN bs |-> project(bs[i].z)]
    IN SelectSeq(ps, LAMBDA q : q # << >>)

(***************************************************************************)
(* Initial state: App mounted, AudioEngine constructed, GameCanvas not yet *)
(* rendered (audioEngineRef.current is null during the first render).      *)
(***************************************************************************)
Init ==
    /\ eng = EngineInit
    /\ gameState = "MENU"
    /\ score = 0
    /\ combo = 0
    /\ health = MaxHealth
    /\ rendered = [gameState |-> "MENU", combo |-> 0, health |-> MaxHealth]
    /\ mounted = TRUE
    /\ canvas = CanvasInit
    /\ pending = 0
    /\ ev = NoEvent

Room(e) ==
    /\ Len(e.ops) < MaxOps
    /\ Cardinality(e.timers)
         + Len(SelectSeq(e.ops, LAMBDA o : o # "suspend")) < MaxTimers

CreatedStates(e) ==
    IF e.ctx = "null" THEN {"running", "suspended", "fail"} ELSE {e.ctx}

\* startGame, by the start or the restart button of the rendered overlay
startGameBy(room) ==
    /\ mounted
    /\ rendered.gameState \in {"MENU", "GAMEOVER"}
    /\ room
    /\ \E created \in CreatedStates(eng) :
         /\ score' = 0
         /\ combo' = 0
         /\ health' = MaxHealth
         /\ IF created = "fail"
            THEN UNCHANGED <<eng, gameState>>
            ELSE LET e == start(eng, created, "resumeGame")
                 IN /\ eng' = e
                    /\ gameState' = IF Len(e.ops) > Len(eng.ops)
                                    THEN gameState ELSE "PLAYING"
    /\ ev' = [NoEvent EXCEPT !.op = "startGame"]
    /\ UNCHANGED <<rendered, mounted, canvas, pending>>

startGame == startGameBy(Room(eng))

\* the device completes a resume(): the awaiting start() continues
ResumeDone ==
    /\ eng.ops # <<>>
    /\ Head(eng.ops) \in {"resume", "resumeGame"}
    /\ eng' = startResumed([eng EXCEPT !.ctx = "running", !.ops = Tail(@)])
    /\ gameState' = IF Head(eng.ops) = "resumeGame" /\ mounted
                    THEN "PLAYING" ELSE gameState
    /\ ev' = [NoEvent EXCEPT !.op = "resumed"]
    /\ UNCHANGED <<score, combo, health, rendered, mounted, canvas, pending>>

\* the device completes a suspend()
SuspendDone ==
    /\ eng.ops # <<>>
    /\ Head(eng.ops) = "suspend"
    /\ eng' = [eng EXCEPT !.ctx = "suspended", !.ops = Tail(@)]
    /\ ev' = [NoEvent EXCEPT !.op = "suspended"]
    /\ UNCHANGED <<gameState, score, combo, health, rendered, mounted, canvas,
                   pending>>

\* a scheduler timer fires
TimerFire ==
    /\ \E id \in eng.timers :
         eng' = scheduler([eng EXCEPT !.timers = @ \ {id}])
    /\ ev' = [NoEvent EXCEPT !.op = "timer"]
    /\ UNCHANGED <<gameState, score, combo, health, rendered, mounted, canvas,
                   pending>>

\* the audio clock advances while the device runs
TickBy(steps, maxTime) ==
    /\ eng.ctx = "running"
    /\ \E d \in steps :
         /\ eng.currentTime + d <= maxTime
         /\ eng' = [eng EXCEPT !.currentTime = @ + d]
    /\ ev' = [NoEvent EXCEPT !.op = "tick"]
    /\ UNCHANGED <<gameState, score, combo, health, rendered, mounted, canvas,
                   pending>>

Tick == TickBy(TimeSteps, MaxTime)

handleGameOver(e) == stop(e)

\* a health effect that ends the game before health has reached 0
gameOverEarly(h, g) == h <= MissPenalty /\ g = "PLAYING"

\* the condition of the health effect, line 35
gameOverDue(h, g) == h <= 0 /\ g = "PLAYING"

\* React commits a render: the closures and the overlay see the current state,
\* GameCanvas is mounted, and the health effect (lines 34-42) runs
Commit ==
    /\ mounted
    /\ rendered # [gameState |-> gameState, combo |-> combo, health |-> health]
    /\ Len(eng.ops) < MaxOps
    /\ rendered' = [gameState |-> gameState, combo |-> combo, health |-> health]
    /\ canvas' = IF ~canvas.mounted
                 THEN requestAnimationFrame([canvas EXCEPT !.mounted = TRUE])
                 ELSE IF gameState # rendered.gameState
                 THEN rerunEffect(canvas)
                 ELSE canvas
    /\ IF /\ health # rendered.health \/ gameState # rendered.gameState
          /\ gameOverDue(health, gameState)
       THEN /\ eng' = handleGameOver(eng)
            /\ gameState' = "GAMEOVER"
       ELSE UNCHANGED <<eng, gameState>>
    /\ pending' = 0
    /\ ev' = [NoEvent EXCEPT !.op = "commit"]
    /\ UNCHANGED <<score, combo, health, mounted>>

\* handleInput (key or click on the canvas)
handleInputBy(maxCombo, maxScore, maxPending) ==
    /\ mounted
    /\ canvas.mounted
    /\ pending < maxPending
    /\ LET currentTime == getCurrentTime(eng)
           t == selectTarget(canvas.buildings)
           err == beatErr(currentTime)
           result == classify(err)
           points == pointsOf(result)
       IN IF rendered.gameState # "PLAYING" \/ t = 0
          THEN /\ ev' = [NoEvent EXCEPT !.op = "handleInput"]
               /\ UNCHANGED <<score, combo, health, canvas, pending>>
          ELSE LET st == handleScoreUpdate(Stats(score, combo, health),
                                           rendered.combo, points, result)
               IN /\ st.combo <= maxCombo
                  /\ st.score <= maxScore
                  /\ canvas' = [canvas EXCEPT
                       !.shake = shakeOf(result),
                       !.buildings[t] = judge(@, result)]
                  /\ score' = st.score
                  /\ combo' = st.combo
                  /\ health' = st.health
                  /\ pending' = pending + 1
                  /\ ev' = [NoEvent EXCEPT !.op = "handleInput",
                               !.result = result, !.points = points,
                               !.beatErr = err, !.target = t]
    /\ UNCHANGED <<eng, gameState, rendered, mounted>>

handleInput == handleInputBy(MaxCombo, MaxScore, MaxPending)

\* one animation frame of the render loop; dz = speed * deltaTime
FrameBy(dzs, maxPending) ==
    /\ mounted
    /\ canvas.mounted
    /\ canvas.frames # {}
    /\ pending < maxPending
    /\ \E dz \in (IF canvas.lastTimeSet THEN dzs ELSE {0}) :
         LET playing == rendered.gameState = "PLAYING"
             k == IF playing THEN missCount(canvas.buildings, dz) ELSE 0
             st == passiveMisses(Stats(score, combo, health), k)
             moved == advance(canvas.buildings, dz)
         IN /\ canvas' = [canvas EXCEPT
                  !.lastTimeSet = TRUE,
                  !.buildings = render(@, rendered.gameState, dz)]
            /\ score' = st.score
            /\ combo' = st.combo
            /\ health' = st.health
            /\ pending' = IF k > 0 THEN pending + 1 ELSE pending
            /\ ev' = [NoEvent EXCEPT !.op = "frame", !.misses = k,
                         !.drawn = draw(render(canvas.buildings,
                                               rendered.gameState, dz)),
                         !.removed = IF playing
                                     THEN SelectSeq(moved, LAMBDA b : ~retained(b))
                                     ELSE <<>>]
    /\ UNCHANGED <<eng, gameState, rendered, mounted>>

Frame == FrameBy(DzSet, MaxPending)

\* App unmounts: the cleanup of lines 18-22 stops the engine, and the canvas
\* effect cleanup cancels the pending animation frame
Unmount ==
    /\ mounted
    /\ Len(eng.ops) < MaxOps
    /\ mounted' = FALSE
    /\ eng' = stop(eng)
    /\ canvas' = IF canvas.mounted THEN cancelAnimationFrame(canvas) ELSE canvas
    /\ ev' = [NoEvent EXCEPT !.op = "unmount"]
    /\ UNCHANGED <<gameState, score, combo, health, rendered, pending>>

Next ==
    \/ startGame
    \/ ResumeDone
    \/ SuspendDone
    \/ TimerFire
    \/ Tick
    \/ Commit
    \/ handleInput
    \/ Frame
    \/ Unmount

Spec == Init /\ [][Next]_vars

(***************************************************************************)
(* One game session: the player presses start once, from the menu, and the *)
(* application stays mounted.  SpecGame has fine-grained frames, SpecScore  *)
(* long combos.                                                            *)
(***************************************************************************)
startGameOnce == startGameBy(eng.ctx = "null")

handleInputGame == handleInputBy(GameMaxCombo, GameMaxScore, GameMaxPending)

FrameGame == FrameBy(GameDzSet, GameMaxPending)

NextGame ==
    \/ startGameOnce
    \/ ResumeDone
    \/ SuspendDone
    \/ TimerFire
    \/ Tick
    \/ Commit
    \/ handleInputGame
    \/ FrameGame

SpecGame == Init /\ [][NextGame]_vars

handleInputScore == handleInputBy(ScoreMaxCombo, ScoreMaxScore, ScoreMaxPending)

FrameScore == FrameBy(DzSet, ScoreMaxPending)

NextScore ==
    \/ startGameOnce
    \/ ResumeDone
    \/ SuspendDone
    \/ TimerFire
    \/ Tick
    \/ Commit
    \/ handleInputScore
    \/ FrameScore

SpecScore == Init /\ [][NextScore]_vars

\* the same session, in which React always gets to commit a pending render
\* and to run its effects
LiveScore == SpecScore /\ WF_vars(Commit)

\* the same session with an audio clock that visits every judgment threshold
JudgeInstants ==
    {t \in 0..JudgeMaxTime : (t % secondsPerBeat) \in JudgePhases}

JudgeTick ==
    TickBy({t - eng.currentTime : t \in {u \in JudgeInstants : u > eng.currentTime}},
           JudgeMaxTime)

handleInputJudge == handleInputBy(JudgeMaxCombo, JudgeMaxScore, JudgeMaxPending)

FrameJudge == FrameBy(DzSet, JudgeMaxPending)

NextJudge ==
    \/ startGameOnce
    \/ ResumeDone
    \/ SuspendDone
    \/ TimerFire
    \/ JudgeTick
    \/ Commit
    \/ handleInputJudge
    \/ FrameJudge

SpecJudge == Init /\ [][NextJudge]_vars

(***************************************************************************)
(* The AudioEngine alone: a client calls start(), stop() and               *)
(* setBeatCallback() in any order.                                         *)
(***************************************************************************)
EngineIdle ==
    UNCHANGED <<gameState, score, combo, health, rendered, mounted, canvas,
                pending>>

apiStart ==
    /\ Room(eng)
    /\ \E created \in CreatedStates(eng) \ {"fail"} :
         eng' = start(eng, created, "resume")
    /\ ev' = [NoEvent EXCEPT !.op = "start"]
    /\ EngineIdle

apiStop ==
    /\ Len(eng.ops) < MaxOps
    /\ eng' = stop(eng)
    /\ ev' = [NoEvent EXCEPT !.op = "stop"]
    /\ EngineIdle

apiSetBeatCallback ==
    /\ eng.beatCallback < MaxCallbacks
    /\ eng' = setBeatCallback(eng, eng.beatCallback + 1)
    /\ ev' = [NoEvent EXCEPT !.op = "setBeatCallback"]
    /\ EngineIdle

EngTick == TickBy(EngTimeSteps, EngMaxTime)

NextEngine ==
    \/ apiStart
    \/ apiStop
    \/ apiSetBeatCallback
    \/ ResumeDone
    \/ SuspendDone
    \/ TimerFire
    \/ EngTick

SpecEngine == Init /\ [][NextEngine]_vars

(***************************************************************************)
(* GameCanvas alone: a parent mounts it with gameState = PLAYING and an    *)
(* engine that was not started, and keeps those props; what the parent     *)
(* does in onScoreUpdate and onPassiveMiss is not part of the component.   *)
(* requestAnimationFrame keeps the render loop going (line 354).           *)
(***************************************************************************)
CanvasAlone == UNCHANGED <<eng, gameState, score, combo, health, rendered,
                           mounted, pending>>

mountCanvas ==
    /\ ~canvas.mounted
    /\ canvas' = requestAnimationFrame([canvas EXCEPT !.mounted = TRUE])
    /\ ev' = [NoEvent EXCEPT !.op = "mount"]
    /\ CanvasAlone

renderPlaying ==
    /\ canvas.mounted
    /\ canvas.frames # {}
    /\ \E dz \in (IF canvas.lastTimeSet THEN PoolDzSet ELSE {0}) :
         /\ canvas' = [canvas EXCEPT
               !.lastTimeSet = TRUE,
               !.buildings = render(@, "PLAYING", dz)]
         /\ ev' = [NoEvent EXCEPT !.op = "frame",
                      !.drawn = draw(render(canvas.buildings, "PLAYING", dz)),
                      !.misses = missCount(canvas.buildings, dz),
                      !.removed = SelectSeq(advance(canvas.buildings, dz),
                                            LAMBDA b : ~retained(b))]
    /\ CanvasAlone

handleInputPlaying ==
    /\ canvas.mounted
    /\ LET t == selectTarget(canvas.buildings)
           err == beatErr(getCurrentTime(eng))
           result == classify(err)
       IN IF t = 0
          THEN /\ ev' = [NoEvent EXCEPT !.op = "handleInput"]
               /\ UNCHANGED canvas
          ELSE /\ canvas' = [canvas EXCEPT
                     !.shake = shakeOf(result),
                     !.buildings[t] = judge(@, result)]
               /\ ev' = [NoEvent EXCEPT !.op = "handleInput",
                            !.result = result, !.points = pointsOf(result),
                            !.beatErr = err, !.target = t]
    /\ CanvasAlone

NextCanvas ==
    \/ mountCanvas
    \/ renderPlaying
    \/ handleInputPlaying

SpecCanvas == Init /\ [][NextCanvas]_vars

\* The parent mounts the canvas, and the render loop reschedules itself every
\* frame.  renderPlaying is enabled whenever the canvas is mounted, so its
\* weak fairness says that frames occur again and again; it is written in
\* that form, which TLC evaluates on the steps taken.
LiveCanvas ==
    /\ SpecCanvas
    /\ WF_vars(mountCanvas)
    /\ []<><<renderPlaying>>_vars

(***************************************************************************)
(* Properties                                                              *)
(***************************************************************************)
SeqRange(q) == {q[i] : i \in DOMAIN q}

Judged == ev.op = "handleInput" /\ ev.result # "NONE"

\* the times at which the sequencer has scheduled a beat-boundary step
\* (step % 4 = 0) in its latest scheduler() call or just before it
ScheduledBeatTimes(e) ==
    {n[2] : n \in {m \in SeqRange(e.notes) \cup
                         (IF e.prevNote = <<>> THEN {} ELSE {e.prevNote}) :
                   m[1] % 4 = 0}}

\* C1: a handleInput() made in PLAYING, with an unlocked target, at an audio
\* time equal to the scheduled time of a beat-boundary step of the current
\* run computes phase error 0 and is classified PERFECT.
C1_OnBeatIsPerfect ==
    (/\ Judged
     /\ eng.runOpen
     /\ getCurrentTime(eng) \in ScheduledBeatTimes(eng))
    => (ev.beatErr = 0 /\ ev.result = "PERFECT")

\* C2: no target is both passively missed (hasMissed) and locked by a
\* PERFECT / GOOD hit (isLocked): every target is judged at most once.
C2_JudgedAtMostOnce ==
    \A i \in DOMAIN canvas.buildings :
        ~(canvas.buildings[i].hasMissed /\ canvas.buildings[i].isLocked)

\* C3: for any sequence of start() and stop() calls at most one scheduler
\* timer is pending.
C3_AtMostOneTimer == Cardinality(eng.timers) <= 1

\* C4: after stop() has returned, and until start() is called again, no step
\* of the engine schedules a note or arms a scheduler timer (a scheduler()
\* call ends by arming one and storing its id in timerID).
C4_QuietAfterStop ==
    [][(eng.stopped /\ eng'.stopped) =>
         /\ eng'.timerID = 0
         /\ eng'.timers \subseteq eng.timers
         /\ eng'.notes = eng.notes]_vars

\* C5: gameState becomes PLAYING only in a step after which the engine is
\* running; a startGame whose start() has not brought the device to running
\* leaves gameState unchanged.
C5_PlayingOnlyWhenRunning ==
    [][/\ (gameState' = "PLAYING" /\ gameState # "PLAYING") => isRunning(eng')
       /\ (ev'.op = "startGame" /\ ~isRunning(eng')) => gameState' = gameState]_vars

C5_PlayingAfterResume ==
    /\ ev.op = "resumed"
    /\ gameState = "PLAYING"
    /\ rendered.gameState = "MENU"
    /\ isRunning(eng)

\* the (step, time) pairs of one run, as far as the engine state records them
RunNotes(e) == (IF e.prevNote = <<>> THEN <<>> ELSE <<e.prevNote>>) \o e.notes

\* C6: within one run, from a start() to the next stop(), the steps given to
\* scheduleNote are 0, 1, ..., 15, 0, ... in order, each time is the previous
\* one plus a sixteenth note, and the step counter stays in 0..15.
C6_StepsInOrder ==
    /\ eng.current16thNote \in 0..(StepsPerBar - 1)
    /\ eng.runOpen =>
         LET run == RunNotes(eng)
         IN /\ (eng.prevNote = <<>> /\ eng.notes # <<>>) => eng.notes[1][1] = 0
            /\ \A i \in 1..(Len(run) - 1) :
                 /\ run[i + 1][1] = (run[i][1] + 1) % StepsPerBar
                 /\ run[i + 1][2] = run[i][2] + sixteenth

\* C7: onPassiveMiss is signalled at most once for a target, and no frame
\* leaves an unlocked target below BUILD_LINE_Z - 60 without having
\* signalled it.
C7_PassiveMissOnce ==
    /\ \A i \in DOMAIN canvas.buildings :
         LET b == canvas.buildings[i]
         IN /\ b.misses <= 1
            /\ (~b.isLocked /\ b.z < BUILD_LINE_Z - MissSlack)
                 => (b.hasMissed /\ b.misses = 1)
            /\ b.z >= BUILD_LINE_Z - MissSlack => b.misses = 0
    /\ \A j \in DOMAIN ev.removed : ev.removed[j].misses <= 1

C7_MissedTargetKept ==
    /\ ev.op = "frame"
    /\ ev.misses = 0
    /\ \E i \in DOMAIN canvas.buildings :
         /\ canvas.buildings[i].hasMissed
         /\ canvas.buildings[i].misses = 1
         /\ ~canvas.buildings[i].isLocked

\* C8: every target a PLAYING frame removes is locked or passively missed,
\* an unlocked one having been signalled exactly once; and a frame that
\* signals k passive misses leaves combo 0 and health max(0, health - 10k).
C8_RetiredAfterJudgment ==
    [][ev'.op = "frame" =>
         /\ \A j \in DOMAIN ev'.removed :
              LET r == ev'.removed[j]
              IN /\ r.isLocked \/ r.hasMissed
                 /\ ~r.isLocked => r.misses = 1
         /\ ev'.misses > 0 =>
              /\ combo' = 0
              /\ health' = Max2(0, health - 10 * ev'.misses)]_vars

C8_UnlockedTargetRetired ==
    /\ ev.op = "frame"
    /\ ev.misses > 0
    /\ combo = 0
    /\ \E j \in DOMAIN ev.removed :
         ~ev.removed[j].isLocked /\ ev.removed[j].misses = 1

\* C9: health is an integer between 0 and 100 in every reachable state.
C9_HealthInRange == health \in 0..100

C9_HealthClamped ==
    /\ ev.op = "handleInput"
    /\ ev.result = "PERFECT"
    /\ health = 100
    /\ rendered.gameState = "PLAYING"
    /\ rendered.health = 100

\* C10: every PERFECT or GOOD hit increases score by
\* floor(points * (1 + floor(c / 5) * 0.5)), c being the combo count
\* immediately before the hit.
C10_ScoreByCurrentCombo ==
    [][(ev'.op = "handleInput" /\ ev'.result \in {"PERFECT", "GOOD"}) =>
         score' = score + (ev'.points * (2 + (combo \div 5))) \div 2]_vars

\* C11: a judged input with phase error e (a fraction of the beat) is PERFECT
\* with 1000 points when e < 0.08, GOOD with 500 points when
\* 0.08 <= e < 0.22, and MISS with 0 points when e >= 0.22.
C11_HalfOpenIntervals ==
    Judged =>
        LET e100 == ev.beatErr * 100
        IN /\ e100 < 8 * secondsPerBeat
                => (ev.result = "PERFECT" /\ ev.points = 1000)
           /\ (8 * secondsPerBeat <= e100 /\ e100 < 22 * secondsPerBeat)
                => (ev.result = "GOOD" /\ ev.points = 500)
           /\ 22 * secondsPerBeat <= e100
                => (ev.result = "MISS" /\ ev.points = 0)

C11_ErrorAtThreshold ==
    /\ Judged
    /\ ev.beatErr * 100 = 8 * secondsPerBeat
    /\ ev.result = "GOOD"
    /\ score = 500

\* C12: gameState changes only from MENU to PLAYING, from PLAYING to GAMEOVER
\* and from GAMEOVER to PLAYING, and it changes to GAMEOVER only with
\* health = 0.
C12_Transitions ==
    [][gameState' # gameState =>
         \/ gameState = "MENU" /\ gameState' = "PLAYING"
         \/ gameState = "PLAYING" /\ gameState' = "GAMEOVER"
              /\ health = 0 /\ health' = 0
         \/ gameState = "GAMEOVER" /\ gameState' = "PLAYING"]_vars

C12_Restarted ==
    /\ gameState = "PLAYING"
    /\ rendered.gameState = "GAMEOVER"
    /\ health = 100
    /\ ev.op \in {"startGame", "resumed"}

C14_ComboSteps ==
    [][/\ combo' \in Nat
       /\ (ev'.op = "handleInput" /\ ev'.result = "MISS") => combo' = 0
       /\ (ev'.op = "handleInput" /\ ev'.result \in {"PERFECT", "GOOD"})
            => combo' = combo + 1
       /\ (ev'.op = "frame" /\ ev'.misses > 0) => combo' = 0
       /\ combo' # combo =>
            \/ ev'.op = "handleInput" /\ ev'.result # "NONE"
            \/ ev'.op = "frame" /\ ev'.misses > 0
            \/ ev'.op = "startGame" /\ combo' = 0]_vars

C14_ComboResetByPassiveMiss ==
    /\ ev.op = "frame"
    /\ ev.misses > 0
    /\ combo = 0
    /\ rendered.combo >= 2

\* C15: an active MISS changes health to max(0, health - 15), a passive miss
\* to max(0, health - 10) (k passive misses of one frame to
\* max(0, health - 10k)), a PERFECT hit to min(100, health + 5), and a GOOD
\* hit leaves it unchanged.
C15_HealthSteps ==
    [][/\ (ev'.op = "handleInput" /\ ev'.result = "MISS")
            => health' = (IF health - 15 > 0 THEN health - 15 ELSE 0)
       /\ (ev'.op = "handleInput" /\ ev'.result = "PERFECT")
            => health' = (IF health + 5 < 100 THEN health + 5 ELSE 100)
       /\ (ev'.op = "handleInput" /\ ev'.result = "GOOD") => health' = health
       /\ ev'.op = "frame"
            => health' = (IF health - 10 * ev'.misses > 0
                          THEN health - 10 * ev'.misses ELSE 0)]_vars

C15_MissClampedAtZero ==
    /\ ev.op = "handleInput"
    /\ ev.result = "MISS"
    /\ health = 0
    /\ pending = 1
    /\ rendered.health \in {5, 10}

\* C16: at most one target is at the same time unlocked, behind the
\* judgment line (depth < BUILD_LINE_Z) and not flagged hasMissed.
C16_OneOpenTargetBehindLine ==
    Cardinality({i \in DOMAIN canvas.buildings :
                    /\ ~canvas.buildings[i].isLocked
                    /\ canvas.buildings[i].z < 200
                    /\ ~canvas.buildings[i].hasMissed}) <= 1

C18_NoOpOutsidePlay ==
    [][(ev'.op = "handleInput" /\ gameState \in {"MENU", "GAMEOVER"}) =>
         /\ ev'.result = "NONE"
         /\ UNCHANGED <<score, combo, health, canvas>>]_vars

\* C19: every target is spawned 400 behind the most recently spawned target
\* still in flight, so no two targets in flight have the same depth.
C19_DistinctDepths ==
    \A i, j \in DOMAIN canvas.buildings :
        i # j => canvas.buildings[i].z # canvas.buildings[j].z

\* C20: a handleInput() in PLAYING judges an unlocked target whose distance
\* |depth - 200| is minimal among all unlocked targets, flagged hasMissed or
\* not; when no target is unlocked it reports nothing and changes nothing.
C20_NearestOpenTarget ==
    [][(ev'.op = "handleInput" /\ gameState = "PLAYING"
          /\ rendered.gameState = "PLAYING") =>
         LET bs == canvas.buildings
             open == {i \in DOMAIN bs : ~bs[i].isLocked}
             t == ev'.target
         IN IF open = {}
            THEN /\ ev'.result = "NONE"
                 /\ UNCHANGED <<eng, gameState, score, combo, health, rendered,
                                canvas, pending>>
            ELSE /\ ev'.result # "NONE"
                 /\ t \in open
                 /\ \A j \in open :
                      Abs(bs[t].z - 200) <= Abs(bs[j].z - 200)
                 /\ \A j \in DOMAIN bs \ {t} :
                      canvas'.buildings[j] = bs[j]
                 /\ canvas'.buildings[t].isLocked = (ev'.result # "MISS")]_vars

C20_MissedTargetJudged ==
    /\ Judged
    /\ gameState = "PLAYING"
    /\ Len(canvas.buildings) >= 2
    /\ canvas.buildings[ev.target].hasMissed
    /\ \E j \in DOMAIN canvas.buildings :
         ~canvas.buildings[j].isLocked /\ ~canvas.buildings[j].hasMissed

\* C21: on a PERFECT or GOOD judgment only the selected target changes: it
\* gets isLocked = TRUE, quality = the result and height 1.0 (PERFECT) or
\* 0.6 (GOOD), heights being counted in hundredths; one report
\* (1000, PERFECT) or (500, GOOD) reaches the controller.
C21_HitLocksSelectedTarget ==
    [][(ev'.op = "handleInput" /\ ev'.result \in {"PERFECT", "GOOD"}) =>
         LET bs == canvas.buildings
             t == ev'.target
         IN /\ t \in DOMAIN bs
            /\ DOMAIN canvas'.buildings = DOMAIN bs
            /\ canvas'.buildings[t] =
                 [bs[t] EXCEPT !.isLocked = TRUE, !.quality = ev'.result,
                     !.height = IF ev'.result = "PERFECT" THEN 100 ELSE 60]
            /\ \A j \in DOMAIN bs \ {t} : canvas'.buildings[j] = bs[j]
            /\ ev'.points = (IF ev'.result = "PERFECT" THEN 1000 ELSE 500)
            /\ combo' = combo + 1]_vars

C21_GoodHitAmongTargets ==
    /\ ev.op = "handleInput"
    /\ ev.result = "GOOD"
    /\ Len(canvas.buildings) >= 3
    /\ canvas.buildings[ev.target].isLocked
    /\ canvas.buildings[ev.target].height = 60

\* C22: an active MISS changes no field of any target, sends one report
\* (0, MISS) to the controller, and leaves the judged target the one the
\* next input selects.
C22_MissLeavesTargets ==
    [][(ev'.op = "handleInput" /\ ev'.result = "MISS") =>
         /\ canvas'.buildings = canvas.buildings
         /\ ev'.points = 0
         /\ combo' = 0
         /\ score' = score
         /\ ev'.target \in DOMAIN canvas'.buildings
         /\ ~canvas'.buildings[ev'.target].isLocked
         /\ selectTarget(canvas'.buildings) = ev'.target]_vars

C22_MissAmongTargets ==
    /\ ev.op = "handleInput"
    /\ ev.result = "MISS"
    /\ Len(canvas.buildings) >= 3
    /\ health = 85
    /\ canvas.buildings[ev.target].quality = "null"

IsLockedTarget(b) == b.isLocked

\* C23: locking is terminal.  An input never selects a locked target and
\* leaves every locked target as it is; a frame only moves the locked
\* targets (all by the same depth step) or retires them: their isLocked,
\* quality, height and passive-miss count do not change; no other step
\* touches the target list.
C23_LockIsTerminal ==
    [][LET bs == canvas.buildings
       IN IF ev'.op = "handleInput"
          THEN /\ DOMAIN canvas'.buildings = DOMAIN bs
               /\ \A j \in DOMAIN bs :
                    bs[j].isLocked => canvas'.buildings[j] = bs[j]
               /\ ev'.result # "NONE" => ~bs[ev'.target].isLocked
          ELSE IF ev'.op = "frame"
          THEN LET was == SelectSeq(bs, IsLockedTarget)
                   now == SelectSeq(canvas'.buildings, IsLockedTarget)
                   dz  == IF now = << >> THEN 0 ELSE was[1].z - now[1].z
               IN /\ Len(now) <= Len(was)
                  /\ dz >= 0
                  /\ \A i \in DOMAIN now : now[i] = [was[i] EXCEPT !.z = @ - dz]
                  /\ now # << >> =>
                       \A i \in DOMAIN was \ DOMAIN now : was[i].z - dz <= -200
          ELSE canvas'.buildings = bs]_vars

C23_LockedTargetPassesMissLine ==
    /\ ev.op = "frame"
    /\ \E i \in DOMAIN canvas.buildings :
         /\ canvas.buildings[i].isLocked
         /\ canvas.buildings[i].z < 140
         /\ ~canvas.buildings[i].hasMissed
         /\ canvas.buildings[i].misses = 0

\* a step in which a start() runs its lines 195-197: a start() that did not
\* have to wait for the device, or the continuation of one that did
StartCompletes ==
    \/ ev'.op = "resumed"
    \/ ev'.op = "start" /\ Len(eng'.ops) = Len(eng.ops)

\* C24: when start() has run, the step counter is 0 and nextNoteTime is the
\* audio clock read by start() plus 0.1 s, and that call has scheduled
\* nothing yet; the first step any later scheduler() call schedules is the
\* pending pair (current16thNote, nextNoteTime); and a step that schedules
\* nothing and is not a start() leaves that pair as it is.  So the first
\* step scheduled after a start() is step 0 at clock-at-start + 0.1 s.
C24_FirstStepAfterStart ==
    [][/\ StartCompletes =>
            /\ eng'.current16thNote = 0
            /\ eng'.nextNoteTime = eng'.currentTime + startOffset
            /\ eng'.currentTime = eng.currentTime
            /\ eng'.notes = << >>
       /\ (~StartCompletes /\ eng'.notes # << >> /\ eng'.notes # eng.notes) =>
            /\ eng'.notes[1][1] = eng.current16thNote
            /\ eng'.notes[1][2] = eng.nextNoteTime
       /\ (~StartCompletes /\ (eng'.notes = << >> \/ eng'.notes = eng.notes)) =>
            /\ eng'.current16thNote = eng.current16thNote
            /\ eng'.nextNoteTime = eng.nextNoteTime]_vars

\* the first scheduler() call of a later run has scheduled step 0 first
C24_RestartedAtStepZero ==
    /\ ev.op = "timer"
    /\ eng.prevNote = << >>
    /\ eng.notes # << >>
    /\ eng.notes[1][1] = 0
    /\ eng.notes[1][2] > startOffset

\* C25: stop() leaves current16thNote, nextNoteTime and the registered beat
\* callback unchanged (and the clock and what has been scheduled); it only
\* clears the timer named by timerID and asks the device to suspend.
C25_StopKeepsSequencer ==
    [][ev'.op = "stop" =>
         /\ eng'.current16thNote = eng.current16thNote
         /\ eng'.nextNoteTime = eng.nextNoteTime
         /\ eng'.beatCallback = eng.beatCallback
         /\ eng'.currentTime = eng.currentTime
         /\ eng'.ctx = eng.ctx
         /\ eng'.notes = eng.notes
         /\ eng'.beats = eng.beats
         /\ eng'.timerID = 0
         /\ eng'.timers = eng.timers \ {eng.timerID}
         /\ eng'.ops = IF eng.ctx = "null" THEN eng.ops
                       ELSE Append(eng.ops, "suspend")]_vars

\* stop() has been called in the middle of a bar, with a callback registered
C25_StoppedMidBar ==
    /\ ev.op = "stop"
    /\ eng.current16thNote # 0
    /\ eng.nextNoteTime > eng.currentTime
    /\ eng.beatCallback # 0
    /\ eng.timerID = 0
    /\ eng.ops # << >>

\* the number of steps, counted from nextNoteTime in sixteenths, whose
\* target time is before the end of the look-ahead window
StepsDue(e) ==
    LET horizon == e.currentTime + scheduleAheadTime
    IN IF e.nextNoteTime < horizon
       THEN ((horizon - e.nextNoteTime - 1) \div sixteenth) + 1
       ELSE 0

\* C26: a scheduler tick schedules exactly the pending steps whose target
\* time is < currentTime + 0.1 s, consecutively and in order from the
\* pending step (none skipped, however late the tick is), and when it
\* finishes nextNoteTime >= currentTime + 0.1 s.
C26_TickSchedulesDueSteps ==
    [][ev'.op = "timer" =>
         LET k == StepsDue(eng)
         IN /\ eng'.currentTime = eng.currentTime
            /\ [i \in DOMAIN eng'.notes |-> <<eng'.notes[i][1], eng'.notes[i][2]>>] =
                  [i \in 1..k |-> <<(eng.current16thNote + i - 1) % StepsPerBar,
                                    eng.nextNoteTime + (i - 1) * sixteenth>>]
            /\ eng'.nextNoteTime = eng.nextNoteTime + k * sixteenth
            /\ eng'.current16thNote = (eng.current16thNote + k) % StepsPerBar
            /\ eng'.nextNoteTime >= eng'.currentTime + scheduleAheadTime
            /\ eng'.nextNoteTime - sixteenth < eng'.currentTime + scheduleAheadTime
                 \/ k = 0]_vars

\* a late tick has caught up on several steps at once
C26_LateTickCaughtUp ==
    /\ ev.op = "timer"
    /\ Len(eng.notes) >= 4
    /\ eng.notes[1][2] < eng.currentTime
    /\ eng.nextNoteTime >= eng.currentTime + scheduleAheadTime

IsBeatStep(n) == n[1] % 4 = 0

\* C28: a scheduler call invokes the registered beat callback, and no other
\* function, exactly once for each step it schedules with step % 4 = 0, in
\* order, with (scheduled time, step index), and for no other step; with no
\* callback registered nothing is invoked; setBeatCallback() replaces the
\* registered callback.
C28_BeatCallbackPerBeat ==
    [][/\ (ev'.op = "timer" \/ StartCompletes) =>
            LET due == SelectSeq(eng'.notes, IsBeatStep)
            IN eng'.beats =
                 IF eng.beatCallback = 0 THEN << >>
                 ELSE [i \in DOMAIN due |-> <<eng.beatCallback, due[i][2], due[i][1]>>]
       /\ ~(ev'.op = "timer" \/ StartCompletes) => eng'.beats = eng.beats
       /\ ev'.op = "setBeatCallback" =>
            /\ eng'.beatCallback # 0
            /\ eng'.beatCallback # eng.beatCallback
       /\ ev'.op # "setBeatCallback" => eng'.beatCallback = eng.beatCallback]_vars

\* a scheduler call has invoked the second registered callback for two
\* beats among steps that are not beats
C28_ReplacedCallbackInvoked ==
    /\ ev.op = "timer"
    /\ eng.beatCallback = 2
    /\ Len(eng.beats) = 2
    /\ Len(eng.notes) >= 5
    /\ eng.beats[1][1] = 2 /\ eng.beats[2][1] = 2

\* C29 (count and spawn): there are never more than 8 targets, and a frame
\* of a canvas that is PLAYING adds exactly one target when fewer than 8 are left after
\* retirement and none otherwise.
C29_AtMostOneSpawn ==
    /\ Len(canvas.buildings) <= PoolSize
    /\ [][ev'.op = "frame" =>
            LET left == Len(canvas.buildings) - Len(ev'.removed)
            IN Len(canvas'.buildings) = IF left < PoolSize THEN left + 1 ELSE left]_vars

\* C29 (progress): once the render loop runs, and while PLAYING frames
\* continue, the number of targets eventually reaches 8.
C29_PoolFills == canvas.lastTimeSet ~> (Len(canvas.buildings) = PoolSize)

\* C30: after every frame processed in PLAYING every remaining target has
\* depth > -200, every target the frame removed had depth <= -200 in that
\* frame, and no target leaves the list otherwise (the list shrinks by the
\* removed targets and grows by at most the one spawned).
C30_RetiredBehindThreshold ==
    [][(ev'.op = "frame" /\ rendered.gameState = "PLAYING") =>
         LET left == Len(canvas.buildings) - Len(ev'.removed)
         IN /\ \A i \in DOMAIN canvas'.buildings : canvas'.buildings[i].z > -200
            /\ \A j \in DOMAIN ev'.removed : ev'.removed[j].z <= -200
            /\ Len(canvas'.buildings) \in {left, left + 1}]_vars

\* a frame has removed a target that had just crossed the threshold, and
\* kept the others
C30_TargetRetired ==
    /\ ev.op = "frame"
    /\ ev.removed # << >>
    /\ \A j \in DOMAIN ev.removed : ev.removed[j].z \in (0 - 370)..(0 - 200)
    /\ Len(canvas.buildings) >= 2

\* C31: across all gameState changes, effect re-runs and the unmount, at
\* most one animation-frame callback is pending: a cleanup cancels the
\* pending frame before the next render loop is started.
C31_OneFramePending ==
    /\ Cardinality(canvas.frames) <= 1
    /\ canvas.frames \subseteq {canvas.animationFrameId}
    /\ (mounted /\ canvas.mounted) => canvas.frames # {}

\* the effect has been re-run for the change from PLAYING to GAMEOVER
C31_EffectRerun ==
    /\ ev.op = "commit"
    /\ rendered.gameState = "GAMEOVER"
    /\ canvas.buildings # << >>
    /\ Cardinality(canvas.frames) = 1

\* C32: score is a non-negative integer; a judgment or a passive miss never
\* lowers it, and the only step that lowers it is startGame, which sets it
\* to 0.
C32_ScoreMonotone ==
    /\ score \in Nat
    /\ [][/\ score' < score => (ev'.op = "startGame" /\ score' = 0)
          /\ ev'.op \in {"handleInput", "frame"} => score' >= score]_vars

\* startGame has reset the score of a session in which a target was locked
C32_ScoreResetByRestart ==
    /\ ev.op = "startGame"
    /\ score = 0
    /\ \E i \in DOMAIN canvas.buildings : canvas.buildings[i].isLocked

\* C33: project() gives no result exactly for depth <= 0; a frame draws
\* exactly the targets of depth > 0, in list order, and skips the others
\* without stopping; and what the frame does to the targets (advance,
\* passive miss, retirement, spawn) is the same whether or not a target is
\* drawn: targets of depth in (-200, 0] stay in the list.
C33_UnprojectableSkipped ==
    [][ev'.op = "frame" =>
         LET bs == canvas'.buildings
             shown == SelectSeq(bs, LAMBDA b : b.z > 0)
         IN /\ \A i \in DOMAIN bs : (project(bs[i].z) = << >>) <=> (bs[i].z <= 0)
            /\ ev'.drawn = [i \in DOMAIN shown |-> <<350, shown[i].z>>]
            /\ \E dz \in GameDzSet \cup {0} :
                 bs = render(canvas.buildings, rendered.gameState, dz)]_vars

\* a frame has drawn some targets and skipped one behind the camera, which
\* was passively missed and is still in the list
C33_TargetBehindCameraSkipped ==
    /\ ev.op = "frame"
    /\ ev.drawn # << >>
    /\ Len(ev.drawn) < Len(canvas.buildings)
    /\ \E i \in DOMAIN canvas.buildings :
         /\ canvas.buildings[i].z <= 0
         /\ canvas.buildings[i].z > -200
         /\ canvas.buildings[i].hasMissed

\* C34: a frame rendered while gameState is MENU or GAMEOVER leaves the
\* targets as they are (no depth or flag changes, none spawned or removed)
\* and emits no passive miss, and startGame does not touch the list either.
C34_IdleFramesKeepTargets ==
    [][/\ (ev'.op = "frame" /\ gameState \in {"MENU", "GAMEOVER"}) =>
            /\ canvas'.buildings = canvas.buildings
            /\ ev'.misses = 0
            /\ ev'.removed = << >>
            /\ UNCHANGED <<combo, health>>
       /\ ev'.op = "startGame" => canvas'.buildings = canvas.buildings]_vars

\* C35: whenever gameState becomes PLAYING (by startGame, the only way it
\* does), score = 0, combo = 0 and health = 100 at that moment.
C35_FreshStatsAtStart ==
    [][(gameState # "PLAYING" /\ gameState' = "PLAYING") =>
         (score' = 0 /\ combo' = 0 /\ health' = MaxHealth)]_vars

====
